---- MODULE Spec2Model ----
(***************************************************************************)
(* Validation engine of ku-ie-validator: CourseRegistrationValidator       *)
(* (src/validator.py) driven by ValidationAdapter.validate_transcript      *)
(* (src/utils/validation_adapter.py).                                      *)
(*                                                                         *)
(* Course codes are naturals; 0 stands for the sentinel "CREDIT_LIMIT".    *)
(* Sequences are 1-based, semester_index in a result is 0-based as in the  *)
(* code: semester_index s is semesters[s + 1].                             *)
(***************************************************************************)
EXTENDS Integers, Sequences, FiniteSets, TLC

VARIABLES
    catalog,                 \* self.all_courses : code -> course_info
    semesters,               \* the transcript handed to validate_transcript
    passed_courses_history,  \* build_passed_courses_history(semesters)
    all_results,             \* the result list of validate_transcript
    pc,                      \* position in validate_transcript / propagate_invalidation
    i,                       \* semester loop index of validate_transcript (0-based)
    k,                       \* registration loop position inside semester i (1-based)
    course_prereqs,          \* keys of the course_prereqs dict, in insertion order
    iterations,              \* propagate_invalidation: iterations
    changes_made,            \* propagate_invalidation: changes_made
    pos,                     \* position of the for loop over course_prereqs.items()
    course_data,             \* shape of the course data file the validator is built from
    log,                     \* the log records emitted, debug records included
    report                   \* the GPA lines of generate_summary_report, one per semester

vars == <<catalog, semesters, passed_courses_history, all_results, pc, i, k,
          course_prereqs, iterations, changes_made, pos, course_data, log, report>>

(***************************************************************************)
(* Bounds of the explored inputs.                                          *)
(***************************************************************************)
NumCourses == 3        \* course codes 1..NumCourses of the general inputs
MaxSemesters == 2      \* semesters per transcript of the general inputs
MaxRegs == 3           \* registrations per transcript
MaxChain == 12         \* longest single-semester dependency chain
MaxGradedRegs == 2     \* registrations per transcript of the runs over every grade

CREDIT_LIMIT == 0
MaxIterations == 10
SummerLimit == 9
RegularLimit == 22

Grades == {"A", "F", "W", "N"}
passing_grades == {"A", "B+", "B", "C+", "C", "D+", "D", "P"}

Min(S) == CHOOSE x \in S : \A y \in S : x <= y
Max(S) == CHOOSE x \in S : \A y \in S : x >= y
Range(s) == {s[j] : j \in DOMAIN s}

Reason(tag, code) == [tag |-> tag, code |-> code]

(***************************************************************************)
(* Dictionaries are functions; d[key] = value overwrites or inserts.       *)
(***************************************************************************)
EmptyDict == [c \in {} |-> "A"]
DictSet(d, key, value) ==
    [c \in (DOMAIN d) \cup {key} |-> IF c = key THEN value ELSE d[c]]

(***************************************************************************)
(* build_passed_courses_history                                            *)
(***************************************************************************)
\* an inner loop that keeps the first passing grade of a course
RECURSIVE AddPassedKeepsFirst(_, _, _)
AddPassedKeepsFirst(cumulative_passed, courses, j) ==
    IF j > Len(courses) THEN cumulative_passed
    ELSE AddPassedKeepsFirst(
             IF courses[j].grade \in passing_grades
                /\ courses[j].code \notin DOMAIN cumulative_passed
             THEN DictSet(cumulative_passed, courses[j].code, courses[j].grade)
             ELSE cumulative_passed,
             courses, j + 1)

RECURSIVE AddPassed(_, _, _)
AddPassed(cumulative_passed, courses, j) ==
    IF j > Len(courses) THEN cumulative_passed
    ELSE AddPassed(IF courses[j].grade \in passing_grades
                   THEN DictSet(cumulative_passed, courses[j].code, courses[j].grade)
                   ELSE cumulative_passed,
                   courses, j + 1)

\* a snapshot that is the running map itself: semester_passed = cumulative_passed
SnapshotRefAliased(s) == s - s

\* The dict objects of the builder: object 0 is cumulative_passed, object s
\* is the semester_passed that dict(cumulative_passed) creates for the s-th
\* semester; SnapshotRef(s) is the object appended to passed_courses_history.
SnapshotRef(s) == s

\* the objects after the builder has gone through the first n semesters: the
\* passing registrations are written to semester_passed and cumulative_passed
RECURSIVE HistoryHeap(_, _)
HistoryHeap(sems, n) ==
    IF n = 0 THEN [o \in {0} |-> EmptyDict]
    ELSE LET before == HistoryHeap(sems, n - 1)
             copied == [o \in 0..n |-> IF o = n THEN before[0] ELSE before[o]]
         IN  [o \in 0..n |->
                 IF o \in {0, SnapshotRef(n)}
                 THEN AddPassed(copied[o], sems[n].courses, 1)
                 ELSE copied[o]]

build_passed_courses_history(sems) ==
    [s \in 1..Len(sems) |-> HistoryHeap(sems, Len(sems))[SnapshotRef(s)]]

get_passed_courses_before_semester(semester_index, history) ==
    IF semester_index = 0 THEN EmptyDict ELSE history[semester_index]

\* a test that finds a failure of the course in any semester of the transcript
has_failed_before_any_semester(course_code, sems, semester_index) ==
    \E s \in 1..Len(sems) : \E j \in DOMAIN sems[s].courses :
        sems[s].courses[j].code = course_code /\ sems[s].courses[j].grade = "F"

has_failed_before(course_code, sems, semester_index) ==
    \E s \in 1..semester_index : \E j \in DOMAIN sems[s].courses :
        sems[s].courses[j].code = course_code /\ sems[s].courses[j].grade = "F"

has_withdrawn_before(course_code, sems, semester_index) ==
    \E s \in 1..semester_index : \E j \in DOMAIN sems[s].courses :
        sems[s].courses[j].code = course_code /\ sems[s].courses[j].grade = "W"

is_taking_in_semester(course_code, semester) ==
    \E j \in DOMAIN semester.courses : semester.courses[j].code = course_code

\* a set of invalid courses gathered from the results of every semester
get_invalid_courses_any_semester(semester_index, validation_results) ==
    {validation_results[j].course_code : j \in
        {n \in DOMAIN validation_results :
            /\ validation_results[n].course_code # CREDIT_LIMIT
            /\ ~validation_results[n].is_valid}}

get_invalid_courses(semester_index, validation_results) ==
    {validation_results[j].course_code : j \in
        {n \in DOMAIN validation_results :
            /\ validation_results[n].course_code # CREDIT_LIMIT
            /\ validation_results[n].semester_index = semester_index
            /\ ~validation_results[n].is_valid}}

\* the set withdrawn_courses that validate_course and propagate_invalidation build
WithdrawnIn(semester) ==
    {semester.courses[j].code : j \in
        {n \in DOMAIN semester.courses : semester.courses[n].grade = "W"}}

\* a group loop that lets any registered prerequisite count as concurrent,
\* whatever the group's concurrent_allowed says
RECURSIVE GroupLoopAlwaysConcurrent(_, _, _, _, _, _, _)
GroupLoopAlwaysConcurrent(j, prereq_group, passed_courses_before, current_semester, sems, semester_index, invalid_courses) ==
    IF j > Len(prereq_group.courses)
    THEN <<TRUE, Reason("All prerequisites in group satisfied", 0)>>
    ELSE LET prereq_code == prereq_group.courses[j]
             rest == GroupLoopAlwaysConcurrent(j + 1, prereq_group,
                         passed_courses_before, current_semester, sems,
                         semester_index, invalid_courses)
         IN  IF prereq_code \in DOMAIN passed_courses_before THEN rest
             ELSE IF is_taking_in_semester(prereq_code, current_semester)
             THEN IF prereq_code \in invalid_courses
                  THEN <<FALSE, Reason("is invalid in current semester", prereq_code)>>
                  ELSE rest
             ELSE <<FALSE, Reason("not satisfied", prereq_code)>>

(***************************************************************************)
(* check_prerequisite_group_satisfied: the for loop from position j on.    *)
(***************************************************************************)
RECURSIVE GroupLoop(_, _, _, _, _, _, _)
GroupLoop(j, prereq_group, passed_courses_before, current_semester, sems, semester_index, invalid_courses) ==
    IF j > Len(prereq_group.courses)
    THEN <<TRUE, Reason("All prerequisites in group satisfied", 0)>>
    ELSE LET prereq_code == prereq_group.courses[j]
             concurrent_allowed == prereq_group.concurrent_allowed
             rest == GroupLoop(j + 1, prereq_group, passed_courses_before,
                               current_semester, sems, semester_index, invalid_courses)
         IN  IF prereq_code \in DOMAIN passed_courses_before THEN rest
             ELSE IF concurrent_allowed
                     /\ is_taking_in_semester(prereq_code, current_semester)
             THEN IF prereq_code \in invalid_courses
                  THEN <<FALSE, Reason("is invalid in current semester", prereq_code)>>
                  ELSE rest
             ELSE IF concurrent_allowed
                     /\ has_failed_before(prereq_code, sems, semester_index)
                     /\ is_taking_in_semester(prereq_code, current_semester)
             THEN rest
             ELSE IF concurrent_allowed
             THEN <<FALSE, Reason("not passed before and not taking concurrently",
                                  prereq_code)>>
             ELSE <<FALSE, Reason("not satisfied", prereq_code)>>

check_prerequisite_group_satisfied(prereq_group, passed_courses_before, current_semester, sems, semester_index, invalid_courses) ==
    IF Len(prereq_group.courses) = 0
    THEN <<TRUE, Reason("No prerequisites required", 0)>>
    ELSE GroupLoop(1, prereq_group, passed_courses_before, current_semester, sems,
                   semester_index, invalid_courses)

\* validate_course, lines 316-331: the loop over the prerequisite groups
RECURSIVE GroupsLoop(_, _, _, _, _, _, _)
GroupsLoop(g, groups, passed_courses_before, current_semester, sems, semester_index, invalid_courses) ==
    IF g > Len(groups)
    THEN <<FALSE, Reason("No prerequisite groups are satisfied", 0)>>
    ELSE IF check_prerequisite_group_satisfied(groups[g], passed_courses_before,
                current_semester, sems, semester_index, invalid_courses)[1]
    THEN <<TRUE, Reason("Prerequisite group satisfied", 0)>>
    ELSE GroupsLoop(g + 1, groups, passed_courses_before, current_semester, sems,
                    semester_index, invalid_courses)

\* a legacy loop that does not consult the results produced so far
RECURSIVE LegacyLoopIgnoresResults(_, _, _, _, _, _, _, _)
LegacyLoopIgnoresResults(j, prerequisites, passed_courses_before, withdrawn_courses, current_semester, sems, semester_index, invalid_courses) ==
    IF j > Len(prerequisites)
    THEN <<TRUE, Reason("All prerequisites satisfied", 0)>>
    ELSE LET prereq_code == prerequisites[j]
             rest == LegacyLoopIgnoresResults(j + 1, prerequisites,
                         passed_courses_before, withdrawn_courses, current_semester,
                         sems, semester_index, invalid_courses)
         IN
         IF prereq_code \in DOMAIN passed_courses_before THEN rest
         ELSE IF prereq_code \in withdrawn_courses
         THEN <<FALSE, Reason("was withdrawn (W) in this semester", prereq_code)>>
         ELSE IF is_taking_in_semester(prereq_code, current_semester)
         THEN IF has_failed_before(prereq_code, sems, semester_index) THEN rest
              ELSE IF has_withdrawn_before(prereq_code, sems, semester_index)
              THEN <<FALSE, Reason("withdrawn before", prereq_code)>>
              ELSE <<FALSE, Reason("not satisfied for concurrent registration",
                                   prereq_code)>>
         ELSE <<FALSE, Reason("not satisfied and not eligible", prereq_code)>>

\* a legacy loop that accepts a concurrent retake after a failure before it
\* looks at the withdrawals of the semester
RECURSIVE LegacyLoopRetakeFirst(_, _, _, _, _, _, _, _)
LegacyLoopRetakeFirst(j, prerequisites, passed_courses_before, withdrawn_courses, current_semester, sems, semester_index, invalid_courses) ==
    IF j > Len(prerequisites)
    THEN <<TRUE, Reason("All prerequisites satisfied", 0)>>
    ELSE LET prereq_code == prerequisites[j]
             rest == LegacyLoopRetakeFirst(j + 1, prerequisites,
                         passed_courses_before, withdrawn_courses, current_semester,
                         sems, semester_index, invalid_courses)
         IN
         IF prereq_code \in DOMAIN passed_courses_before THEN rest
         ELSE IF is_taking_in_semester(prereq_code, current_semester)
                 /\ prereq_code \notin invalid_courses
                 /\ has_failed_before(prereq_code, sems, semester_index)
         THEN rest
         ELSE IF prereq_code \in withdrawn_courses
         THEN <<FALSE, Reason("was withdrawn (W) in this semester", prereq_code)>>
         ELSE IF is_taking_in_semester(prereq_code, current_semester)
         THEN IF prereq_code \in invalid_courses
              THEN <<FALSE, Reason("is invalid in current semester", prereq_code)>>
              ELSE IF has_withdrawn_before(prereq_code, sems, semester_index)
              THEN <<FALSE, Reason("withdrawn before", prereq_code)>>
              ELSE <<FALSE, Reason("not satisfied for concurrent registration",
                                   prereq_code)>>
         ELSE <<FALSE, Reason("not satisfied and not eligible", prereq_code)>>

\* validate_course, lines 339-375: the loop over the legacy prerequisite list
RECURSIVE LegacyLoop(_, _, _, _, _, _, _, _)
LegacyLoop(j, prerequisites, passed_courses_before, withdrawn_courses, current_semester, sems, semester_index, invalid_courses) ==
    IF j > Len(prerequisites)
    THEN <<TRUE, Reason("All prerequisites satisfied", 0)>>
    ELSE LET prereq_code == prerequisites[j] IN
         IF prereq_code \in DOMAIN passed_courses_before
         THEN LegacyLoop(j + 1, prerequisites, passed_courses_before,
                         withdrawn_courses, current_semester, sems, semester_index,
                         invalid_courses)
         ELSE IF prereq_code \in withdrawn_courses
         THEN <<FALSE, Reason("was withdrawn (W) in this semester", prereq_code)>>
         ELSE IF is_taking_in_semester(prereq_code, current_semester)
         THEN IF prereq_code \in invalid_courses
              THEN <<FALSE, Reason("is invalid in current semester", prereq_code)>>
              ELSE IF has_failed_before(prereq_code, sems, semester_index)
              THEN LegacyLoop(j + 1, prerequisites, passed_courses_before,
                              withdrawn_courses, current_semester, sems,
                              semester_index, invalid_courses)
              ELSE IF has_withdrawn_before(prereq_code, sems, semester_index)
              THEN <<FALSE, Reason("withdrawn before", prereq_code)>>
              ELSE <<FALSE, Reason("not satisfied for concurrent registration",
                                   prereq_code)>>
         ELSE <<FALSE, Reason("not satisfied and not eligible", prereq_code)>>

\* an evaluator that refuses a course the catalog does not know
validate_course_rejects_unknown(course, semester_index, sems, history, validation_results) ==
    LET course_code == course.code
        grade == course.grade
        current_semester == sems[semester_index + 1]
    IN
    IF grade = "W" THEN <<TRUE, Reason("Course was withdrawn", 0)>>
    ELSE IF grade = "N" THEN <<TRUE, Reason("Course not graded yet", 0)>>
    ELSE IF course_code \notin DOMAIN catalog
    THEN <<FALSE, Reason("not found in course data", course_code)>>
    ELSE
    LET course_info == catalog[course_code]
        passed_courses_before ==
            get_passed_courses_before_semester(semester_index, history)
        invalid_courses == get_invalid_courses(semester_index, validation_results)
        withdrawn_courses == WithdrawnIn(current_semester)
    IN
    IF Len(course_info.prerequisite_groups) > 0
    THEN GroupsLoop(1, course_info.prerequisite_groups, passed_courses_before,
                    current_semester, sems, semester_index, invalid_courses)
    ELSE IF Len(course_info.prerequisites) = 0
    THEN <<TRUE, Reason("No prerequisites required", 0)>>
    ELSE LegacyLoop(1, course_info.prerequisites, passed_courses_before,
                    withdrawn_courses, current_semester, sems, semester_index,
                    invalid_courses)

\* an evaluator that checks the legacy list as well when a group is satisfied
validate_course_groups_and_legacy(course, semester_index, sems, history, validation_results) ==
    LET course_code == course.code
        grade == course.grade
        current_semester == sems[semester_index + 1]
    IN
    IF grade = "W" THEN <<TRUE, Reason("Course was withdrawn", 0)>>
    ELSE IF grade = "N" THEN <<TRUE, Reason("Course not graded yet", 0)>>
    ELSE IF course_code \notin DOMAIN catalog
    THEN <<TRUE, Reason("not found in course data", course_code)>>
    ELSE
    LET course_info == catalog[course_code]
        passed_courses_before ==
            get_passed_courses_before_semester(semester_index, history)
        invalid_courses == get_invalid_courses(semester_index, validation_results)
        withdrawn_courses == WithdrawnIn(current_semester)
        by_groups == GroupsLoop(1, course_info.prerequisite_groups, passed_courses_before,
                                current_semester, sems, semester_index, invalid_courses)
        by_list == LegacyLoop(1, course_info.prerequisites, passed_courses_before,
                              withdrawn_courses, current_semester, sems, semester_index,
                              invalid_courses)
    IN
    IF Len(course_info.prerequisite_groups) > 0 /\ ~by_groups[1] THEN by_groups
    ELSE IF Len(course_info.prerequisites) = 0
    THEN IF Len(course_info.prerequisite_groups) > 0 THEN by_groups
         ELSE <<TRUE, Reason("No prerequisites required", 0)>>
    ELSE by_list

(***************************************************************************)
(* validate_course(course, semester_index, semesters, history, results)    *)
(***************************************************************************)
validate_course(course, semester_index, sems, history, validation_results) ==
    LET course_code == course.code
        grade == course.grade
        current_semester == sems[semester_index + 1]
    IN
    IF grade = "W" THEN <<TRUE, Reason("Course was withdrawn", 0)>>
    ELSE IF grade = "N" THEN <<TRUE, Reason("Course not graded yet", 0)>>
    ELSE IF course_code \notin DOMAIN catalog
    THEN <<TRUE, Reason("not found in course data", course_code)>>
    ELSE
    LET course_info == catalog[course_code]
        passed_courses_before ==
            get_passed_courses_before_semester(semester_index, history)
        invalid_courses == get_invalid_courses(semester_index, validation_results)
        withdrawn_courses == WithdrawnIn(current_semester)
    IN
    IF Len(course_info.prerequisite_groups) > 0
    THEN GroupsLoop(1, course_info.prerequisite_groups, passed_courses_before,
                    current_semester, sems, semester_index, invalid_courses)
    ELSE IF Len(course_info.prerequisites) = 0
    THEN <<TRUE, Reason("No prerequisites required", 0)>>
    ELSE LegacyLoop(1, course_info.prerequisites, passed_courses_before,
                    withdrawn_courses, current_semester, sems, semester_index,
                    invalid_courses)

\* a credit check whose thresholds are inclusive
validate_credit_limit_inclusive(semester) ==
    IF semester.semester_type = "Summer"
    THEN IF semester.total_credits >= SummerLimit
         THEN <<FALSE, Reason("NOTICE: Exceeds typical 9 credits for summer",
                              semester.total_credits)>>
         ELSE <<TRUE, Reason("Credit limit valid", semester.total_credits)>>
    ELSE IF semester.total_credits >= RegularLimit
         THEN <<FALSE, Reason("NOTICE: Exceeds typical 22 credits for regular semester",
                              semester.total_credits)>>
         ELSE <<TRUE, Reason("Credit limit valid", semester.total_credits)>>

(***************************************************************************)
(* validate_credit_limit(semester)                                         *)
(***************************************************************************)
validate_credit_limit(semester) ==
    IF semester.semester_type = "Summer"
    THEN IF semester.total_credits > SummerLimit
         THEN <<FALSE, Reason("NOTICE: Exceeds typical 9 credits for summer",
                              semester.total_credits)>>
         ELSE <<TRUE, Reason("Credit limit valid", semester.total_credits)>>
    ELSE IF semester.total_credits > RegularLimit
         THEN <<FALSE, Reason("NOTICE: Exceeds typical 22 credits for regular semester",
                              semester.total_credits)>>
         ELSE <<TRUE, Reason("Credit limit valid", semester.total_credits)>>

(***************************************************************************)
(* propagate_invalidation: the maps built before the loop.                 *)
(***************************************************************************)
\* course_results[key]: the position in the list of the result the dict holds
\* for key (the last one appended with that key), 0 when the key is absent.
ResultIndex(validation_results, key) ==
    LET hits == {n \in DOMAIN validation_results :
                    /\ validation_results[n].course_code # CREDIT_LIMIT
                    /\ validation_results[n].course_code = key[1]
                    /\ validation_results[n].semester_index = key[2]}
    IN  IF hits = {} THEN 0 ELSE Max(hits)

\* the set prereqs of lines 422-431 (legacy list and every group's courses)
MergedPrereqs(course_code) ==
    IF course_code \notin DOMAIN catalog THEN {}
    ELSE Range(catalog[course_code].prerequisites) \cup
         UNION {Range(catalog[course_code].prerequisite_groups[g].courses) :
                    g \in DOMAIN catalog[course_code].prerequisite_groups}

\* keys of course_prereqs in insertion order (a key is inserted once, at the
\* first registration that carries it)
RECURSIVE PrereqKeysFrom(_, _, _, _)
PrereqKeysFrom(sems, s, j, keys) ==
    IF s > Len(sems) THEN keys
    ELSE IF j > Len(sems[s].courses) THEN PrereqKeysFrom(sems, s + 1, 1, keys)
    ELSE LET key == <<sems[s].courses[j].code, s - 1>>
         IN  PrereqKeysFrom(sems, s, j + 1,
                 IF MergedPrereqs(key[1]) # {} /\ key \notin Range(keys)
                 THEN Append(keys, key) ELSE keys)

BuildCoursePrereqs(sems) == PrereqKeysFrom(sems, 1, 1, << >>)

\* the orders in which list(prereqs) can enumerate a set
ListOrders(S) ==
    {f \in [1..Cardinality(S) -> S] : \A a, b \in 1..Cardinality(S) : a # b => f[a] # f[b]}

\* next(c for c in semester["courses"] if c["code"] == course_code)
FirstCourse(semester, course_code) ==
    semester.courses[Min({j \in DOMAIN semester.courses :
                              semester.courses[j].code = course_code})]

\* a test that takes an invalid result of the prerequisite in any semester
PrereqInvalidAnySemester(validation_results, prereq_code, semester_index) ==
    \E m \in DOMAIN validation_results :
        /\ validation_results[m].course_code = prereq_code
        /\ ~validation_results[m].is_valid

\* lines 485-497: the prerequisite has an invalid result in a semester
\* 0..semester_index
PrereqInvalid(validation_results, prereq_code, semester_index) ==
    \E s \in 0..semester_index :
        LET m == ResultIndex(validation_results, <<prereq_code, s>>)
        IN  m # 0 /\ ~validation_results[m].is_valid

\* a propagation turn that recomputes the flag of the result instead of only
\* ever clearing it
PropagateCourseRecompute(sems, validation_results, key, ord) ==
    LET n == ResultIndex(validation_results, key) IN
    IF n = 0 THEN <<validation_results, FALSE>>
    ELSE
    LET triggered ==
            \E j \in DOMAIN ord :
                \/ ord[j] \in WithdrawnIn(sems[key[2] + 1])
                \/ PrereqInvalid(validation_results, ord[j], key[2])
    IN  <<[validation_results EXCEPT ![n].is_valid = ~triggered],
          validation_results[n].is_valid # ~triggered>>

(***************************************************************************)
(* propagate_invalidation: one turn of the for loop (lines 454-504) for    *)
(* key, with prereqs enumerated in the order ord.  Returns the result list *)
(* and whether the turn set changes_made.                                  *)
(***************************************************************************)
PropagateCourse(sems, validation_results, key, ord) ==
    LET n == ResultIndex(validation_results, key) IN
    IF n = 0 \/ ~validation_results[n].is_valid THEN <<validation_results, FALSE>>
    ELSE
    LET semester == sems[key[2] + 1]
        course == FirstCourse(semester, key[1])
    IN
    IF course.grade = "N" THEN <<validation_results, FALSE>>
    ELSE
    LET withdrawn == {j \in DOMAIN ord : ord[j] \in WithdrawnIn(semester)}
        after_withdrawn ==
            IF withdrawn = {} THEN validation_results
            ELSE [validation_results EXCEPT
                    ![n].is_valid = FALSE,
                    ![n].reason = Reason("was withdrawn (W) or failed (F) in this semester",
                                         ord[Min(withdrawn)])]
    IN
    IF course.grade = "W" THEN <<after_withdrawn, withdrawn # {}>>
    ELSE
    LET invalid == {j \in DOMAIN ord : PrereqInvalid(after_withdrawn, ord[j], key[2])}
    IN  IF invalid = {} THEN <<after_withdrawn, withdrawn # {}>>
        ELSE <<[after_withdrawn EXCEPT
                  ![n].is_valid = FALSE,
                  ![n].reason = Reason("is invalid", ord[Min(invalid)])], TRUE>>

\* a loop test without the iteration cap
LoopContinuesUncapped(changes, iters) == changes

\* the test of the while loop, line 449
LoopContinues(changes, iters) == changes /\ iters < MaxIterations

(***************************************************************************)
(* validate_transcript: the result records it appends.                     *)
(***************************************************************************)
\* a credit result that takes over the flag validate_credit_limit returned
CreditResultFlagged(semester_index, credit_reason) ==
    [semester_index |-> semester_index, course_code |-> CREDIT_LIMIT, grade |-> "N/A",
     is_valid |-> FALSE, reason |-> credit_reason, type |-> "credit_limit"]

CreditResult(semester_index, credit_reason) ==
    [semester_index |-> semester_index, course_code |-> CREDIT_LIMIT, grade |-> "N/A",
     is_valid |-> TRUE, reason |-> credit_reason, type |-> "credit_limit"]

CourseResult(semester_index, course, verdict) ==
    [semester_index |-> semester_index, course_code |-> course.code,
     grade |-> course.grade, is_valid |-> verdict[1], reason |-> verdict[2],
     type |-> "prerequisite"]

\* lines 127-161: the result for one registration (W is answered by the adapter)
EvaluateRegistration(course, semester_index, sems, history, results) ==
    IF course.grade = "W"
    THEN CourseResult(semester_index, course, <<TRUE, Reason("Course was withdrawn", 0)>>)
    ELSE CourseResult(semester_index, course,
                      validate_course(course, semester_index, sems, history, results))

(***************************************************************************)
(* validate_transcript as a function of the transcript: the result list it *)
(* returns (lines 103-166), with every prereqs set listed in ascending     *)
(* order.                                                                  *)
(***************************************************************************)
RECURSIVE EvaluateCourses(_, _, _, _, _)
EvaluateCourses(sems, history, s, j, results) ==
    IF j > Len(sems[s].courses) THEN results
    ELSE EvaluateCourses(sems, history, s, j + 1,
             Append(results,
                    EvaluateRegistration(sems[s].courses[j], s - 1, sems, history,
                                         results)))

RECURSIVE EvaluateSemesters(_, _, _, _)
EvaluateSemesters(sems, history, s, results) ==
    IF s > Len(sems) THEN results
    ELSE LET verdict == validate_credit_limit(sems[s])
             with_credit == IF ~verdict[1]
                            THEN Append(results, CreditResult(s - 1, verdict[2]))
                            ELSE results
         IN  EvaluateSemesters(sems, history, s + 1,
                               EvaluateCourses(sems, history, s, 1, with_credit))

AscendingOrder(S) ==
    CHOOSE f \in ListOrders(S) : \A a, b \in DOMAIN f : a < b => f[a] < f[b]

RECURSIVE PropagatePass(_, _, _, _, _)
PropagatePass(sems, keys, p, results, changes) ==
    IF p > Len(keys) THEN <<results, changes>>
    ELSE LET out == PropagateCourse(sems, results, keys[p],
                                    AscendingOrder(MergedPrereqs(keys[p][1])))
         IN  PropagatePass(sems, keys, p + 1, out[1], changes \/ out[2])

RECURSIVE PropagateLoop(_, _, _, _, _)
PropagateLoop(sems, keys, results, changes, iters) ==
    IF LoopContinues(changes, iters)
    THEN LET out == PropagatePass(sems, keys, 1, results, FALSE)
         IN  PropagateLoop(sems, keys, out[1], out[2], iters + 1)
    ELSE results

validate_transcript(sems) ==
    PropagateLoop(sems, BuildCoursePrereqs(sems),
                  EvaluateSemesters(sems, build_passed_courses_history(sems), 1, << >>),
                  TRUE, 0)

(***************************************************************************)
(* GPA views (calculate_gpa and its callers).  Grade points are kept as    *)
(* twice their value and a GPA as hundredths, so that both are integers:   *)
(* 350 is 3.5.                                                             *)
(***************************************************************************)
\* the grade_points table, doubled
grade_points ==
    [g \in {"A", "B+", "B", "C+", "C", "D+", "D", "F"} |->
        CASE g = "A" -> 8 [] g = "B+" -> 7 [] g = "B" -> 6 [] g = "C+" -> 5
          [] g = "C" -> 4 [] g = "D+" -> 3 [] g = "D" -> 2 [] g = "F" -> 0]

\* round(num / den, 0) for den > 0: to the nearest integer, a tie to the even one
RoundHalfEven(num, den) ==
    LET q == num \div den
        r == num % den
    IN  IF 2 * r < den THEN q
        ELSE IF 2 * r > den THEN q + 1
        ELSE IF q % 2 = 0 THEN q ELSE q + 1

\* a GPA loop that also counts the credits of the grades without points
RECURSIVE GpaLoopCountsEveryCredit(_, _, _, _)
GpaLoopCountsEveryCredit(courses, j, total_points, total_credits) ==
    IF j > Len(courses) THEN <<total_points, total_credits>>
    ELSE IF courses[j].grade \notin DOMAIN grade_points
    THEN GpaLoopCountsEveryCredit(courses, j + 1, total_points,
                                  total_credits + courses[j].credits)
    ELSE GpaLoopCountsEveryCredit(courses, j + 1,
             total_points + grade_points[courses[j].grade] * courses[j].credits,
             total_credits + courses[j].credits)

\* lines 578-588: the loop over the courses; total_points doubled
RECURSIVE GpaLoop(_, _, _, _)
GpaLoop(courses, j, total_points, total_credits) ==
    IF j > Len(courses) THEN <<total_points, total_credits>>
    ELSE IF courses[j].grade \notin DOMAIN grade_points
    THEN GpaLoop(courses, j + 1, total_points, total_credits)
    ELSE GpaLoop(courses, j + 1,
             total_points + grade_points[courses[j].grade] * courses[j].credits,
             total_credits + courses[j].credits)

\* lines 553-595: (GPA in hundredths, total_credits counted)
calculate_gpa(courses) ==
    LET totals == GpaLoop(courses, 1, 0, 0) IN
    IF totals[2] > 0
    THEN <<RoundHalfEven(50 * totals[1], totals[2]), totals[2]>>
    ELSE <<0, 0>>

\* all_courses.extend(...) over the semesters 0..up_to_index
RECURSIVE CoursesThrough(_, _)
CoursesThrough(sems, up_to_index) ==
    IF up_to_index < 0 THEN << >>
    ELSE CoursesThrough(sems, up_to_index - 1) \o sems[up_to_index + 1].courses

\* lines 508-524
calculate_cumulative_gpa(sems, up_to_index) ==
    calculate_gpa(CoursesThrough(sems, up_to_index))[1]

\* lines 541-543 and 661-663: the codes with a valid result in the semester
valid_course_codes(validation_results, semester_index) ==
    {validation_results[n].course_code :
        n \in {m \in DOMAIN validation_results :
                  /\ validation_results[m].semester_index = semester_index
                  /\ validation_results[m].course_code # CREDIT_LIMIT
                  /\ validation_results[m].is_valid}}

\* lines 546-547 and 664: the courses of the semester with such a code
valid_courses(sems, validation_results, semester_index) ==
    SelectSeq(sems[semester_index + 1].courses,
              LAMBDA c : c.code \in valid_course_codes(validation_results, semester_index))

RECURSIVE ValidCoursesThrough(_, _, _)
ValidCoursesThrough(sems, validation_results, up_to_index) ==
    IF up_to_index < 0 THEN << >>
    ELSE ValidCoursesThrough(sems, validation_results, up_to_index - 1)
             \o valid_courses(sems, validation_results, up_to_index)

\* lines 526-551
calculate_valid_cumulative_gpa(sems, validation_results, up_to_index) ==
    calculate_gpa(ValidCoursesThrough(sems, validation_results, up_to_index))[1]

\* lines 652-666: the four GPA views of each semester
generate_summary_report(sems, validation_results) ==
    [s \in 1..Len(sems) |->
        [semester_gpa |-> calculate_gpa(sems[s].courses)[1],
         cumulative_gpa |-> calculate_cumulative_gpa(sems, s - 1),
         valid_semester_gpa |->
             calculate_gpa(valid_courses(sems, validation_results, s - 1))[1],
         valid_cumulative_gpa |->
             calculate_valid_cumulative_gpa(sems, validation_results, s - 1)]]

\* a log record
Record(level, tag, n) == [level |-> level, tag |-> tag, n |-> n]

(***************************************************************************)
(* Inputs: catalogs and transcripts.                                       *)
(***************************************************************************)
Entry(prerequisites, prerequisite_groups) ==
    [prerequisites |-> prerequisites, prerequisite_groups |-> prerequisite_groups]
Group(courses, concurrent_allowed) ==
    [courses |-> courses, concurrent_allowed |-> concurrent_allowed]
Registration(code, grade) == [code |-> code, grade |-> grade, credits |-> 3]

\* catalogs over the course codes 1, 2, 3
LegacyChainCatalog ==
    (1 :> Entry(<<3>>, << >>)) @@ (2 :> Entry(<<1>>, << >>)) @@ (3 :> Entry(<< >>, << >>))
\* 3 is not a catalog course
GroupChainCatalog ==
    (1 :> Entry(<< >>, <<Group(<<3>>, FALSE)>>)) @@
    (2 :> Entry(<< >>, <<Group(<<1>>, TRUE)>>))
CyclicCatalog ==
    (1 :> Entry(<<2>>, << >>)) @@ (2 :> Entry(<<1>>, << >>)) @@ (3 :> Entry(<<3>>, << >>))
\* 2 has both shapes of rule, 1 an empty group
MixedCatalog ==
    (1 :> Entry(<< >>, <<Group(<< >>, FALSE)>>)) @@
    (2 :> Entry(<<3>>, <<Group(<<1>>, FALSE), Group(<<1, 3>>, TRUE)>>)) @@
    (3 :> Entry(<<1>>, << >>))
LegacyListCatalog ==
    (1 :> Entry(<< >>, << >>)) @@ (2 :> Entry(<<1, 3>>, << >>)) @@ (3 :> Entry(<<1>>, << >>))

Catalogs ==
    {LegacyChainCatalog, GroupChainCatalog, CyclicCatalog, MixedCatalog, LegacyListCatalog}

\* a catalog with one chain: course c needs c + 1, concurrently if registered
ChainCatalog(n) ==
    [c \in 1..n |-> IF c < n THEN Entry(<< >>, <<Group(<<c + 1>>, TRUE)>>)
                    ELSE Entry(<<c + 1>>, << >>)]

\* the caller-supplied (semester_type, total_credits) of the semesters, by position
CreditProfiles ==
    { [s \in 1..MaxSemesters |->
          IF s % 2 = 1 THEN <<"Second", RegularLimit + 1>> ELSE <<"Summer", SummerLimit>>],
      [s \in 1..MaxSemesters |->
          IF s % 2 = 1 THEN <<"First", RegularLimit>> ELSE <<"Summer", SummerLimit + 1>>] }

Semester(profile, s, courses) ==
    [semester_type |-> profile[s][1], total_credits |-> profile[s][2], courses |-> courses]

RegistrationChoices == {Registration(c, g) : c \in 1..NumCourses, g \in Grades}

\* the ways to cut a list of t registrations into n consecutive semesters
Cuts(n, t) ==
    {cut \in [0..n -> 0..t] :
        /\ cut[0] = 0
        /\ cut[n] = t
        /\ \A s \in 1..n : cut[s - 1] <= cut[s]}

\* semesters is a transcript of at most MaxSemesters semesters that holds at
\* most MaxRegs registrations in all
IsTranscript ==
    \E t \in 0..MaxRegs : \E flat \in [1..t -> RegistrationChoices] :
    \E n \in 0..MaxSemesters : \E cut \in Cuts(n, t) :
    \E profile \in CreditProfiles :
        semesters = [s \in 1..n |->
                        Semester(profile, s, SubSeq(flat, cut[s - 1] + 1, cut[s]))]

\* one semester that lists the courses 1..n of a chain, dependents first
ChainTranscript(n) ==
    <<[semester_type |-> "First", total_credits |-> 3 * n,
       courses |-> [c \in 1..n |-> Registration(c, "A")]]>>

\* semesters is a retake of course 1: courses 1 and 3 in the first semester,
\* then course 1 again together with its dependent 2, in either order, with
\* any grades
IsRetakeTranscript ==
    \E grade \in [1..4 -> Grades] : \E dependent_first \in BOOLEAN :
    \E profile \in CreditProfiles :
        semesters =
            <<Semester(profile, 1, <<Registration(1, grade[1]), Registration(3, grade[2])>>),
              Semester(profile, 2,
                  IF dependent_first
                  THEN <<Registration(2, grade[4]), Registration(1, grade[3])>>
                  ELSE <<Registration(1, grade[3]), Registration(2, grade[4])>>)>>

\* semesters is a transcript of three semesters: prerequisite X alone in the
\* first two, then X again together with its dependent Y, in either order,
\* with any grades; (X, Y) is (3, 1) or (1, 2) of the legacy chain
IsSecondRetakeTranscript ==
    \E pair \in {<<3, 1>>, <<1, 2>>} : \E grade \in [1..4 -> Grades] :
    \E dependent_first \in BOOLEAN :
        semesters =
            <<[semester_type |-> "First", total_credits |-> 3,
               courses |-> <<Registration(pair[1], grade[1])>>],
              [semester_type |-> "Second", total_credits |-> 3,
               courses |-> <<Registration(pair[1], grade[2])>>],
              [semester_type |-> "First", total_credits |-> 6,
               courses |-> IF dependent_first
                           THEN <<Registration(pair[2], grade[4]),
                                  Registration(pair[1], grade[3])>>
                           ELSE <<Registration(pair[1], grade[3]),
                                  Registration(pair[2], grade[4])>>]>>

\* semesters is a transcript of three semesters over the group chain: 3
\* alone, then 1 and its dependent 2 in either order, then 1 and 3 again,
\* with any grades
IsLaterRetakeTranscript ==
    \E grade \in [1..5 -> Grades] : \E dependent_first \in BOOLEAN :
        semesters =
            <<[semester_type |-> "First", total_credits |-> 3,
               courses |-> <<Registration(3, grade[1])>>],
              [semester_type |-> "Second", total_credits |-> 6,
               courses |-> IF dependent_first
                           THEN <<Registration(2, grade[3]), Registration(1, grade[2])>>
                           ELSE <<Registration(1, grade[2]), Registration(2, grade[3])>>],
              [semester_type |-> "First", total_credits |-> 6,
               courses |-> <<Registration(1, grade[4]), Registration(3, grade[5])>>]>>

\* every grade of the grade tables, and one that no table knows
AllGrades == DOMAIN grade_points \cup {"W", "P", "N", "X"}

GradedChoices ==
    {[code |-> c, grade |-> g, credits |-> cr] :
        c \in 1..NumCourses, g \in AllGrades, cr \in {1, 3}}

\* semesters is a transcript of at most MaxGradedRegs registrations with any
\* grade and credits, in at most MaxSemesters semesters
IsGradedTranscript ==
    \E t \in 0..MaxGradedRegs : \E flat \in [1..t -> GradedChoices] :
    \E n \in 0..MaxSemesters : \E cut \in Cuts(n, t) :
    \E profile \in CreditProfiles :
        semesters = [s \in 1..n |->
                        Semester(profile, s, SubSeq(flat, cut[s - 1] + 1, cut[s]))]

\* the shapes of a course data file that cannot be loaded
Malformed == {"invalid_json", "missing_code"}

\* nothing has run yet
Idle ==
    /\ passed_courses_history = << >>
    /\ all_results = << >>
    /\ pc = "init"
    /\ i = 0
    /\ k = 1
    /\ course_prereqs = << >>
    /\ iterations = 0
    /\ changes_made = TRUE
    /\ pos = 1
    /\ log = << >>
    /\ report = << >>

Init ==
    /\ \/ /\ course_data = "ok"
          /\ \/ catalog \in Catalogs /\ IsTranscript
             \/ \E n \in 1..MaxChain :
                    catalog = ChainCatalog(n) /\ semesters = ChainTranscript(n)
             \/ catalog = LegacyChainCatalog /\ IsRetakeTranscript
             \/ catalog = LegacyChainCatalog /\ IsSecondRetakeTranscript
             \/ catalog = GroupChainCatalog /\ IsLaterRetakeTranscript
       \/ /\ course_data \in Malformed
          /\ catalog = LegacyChainCatalog
          /\ IsTranscript
    /\ Idle

\* the runs over the transcripts with every kind of grade
GradeInit ==
    /\ course_data = "ok"
    /\ catalog = LegacyListCatalog
    /\ IsGradedTranscript
    /\ Idle

(***************************************************************************)
(* ValidationAdapter.initialize_validator and the validator's constructor  *)
(***************************************************************************)
\* validation_adapter.py 96-99 and 55-79, validator.py 27-54: an unparsable
\* file ends the process in load_course_data (sys.exit(1)); an entry without
\* "code" raises KeyError in the constructor, which initialize_validator
\* catches, and validate_transcript returns []
InitializeValidator ==
    /\ pc = "init"
    /\ \/ /\ course_data = "ok"
          /\ log' = log \o <<Record("INFO", "Loaded courses from course data",
                                    Cardinality(DOMAIN catalog)),
                             Record("INFO", "Initialized validator with course data", 0)>>
          /\ pc' = "start"
       \/ /\ course_data = "invalid_json"
          /\ log' = Append(log, Record("ERROR", "Invalid JSON format in file", 0))
          /\ pc' = "exited"
       \/ /\ course_data = "missing_code"
          /\ log' = log \o <<Record("ERROR", "Failed to initialize validator", 0),
                             Record("ERROR", "Cannot validate - validator not initialized", 0)>>
          /\ pc' = "failed"
    /\ UNCHANGED <<catalog, semesters, passed_courses_history, all_results, i, k,
                   course_prereqs, iterations, changes_made, pos, course_data, report>>

(***************************************************************************)
(* validate_transcript                                                     *)
(***************************************************************************)
\* line 103
BuildHistory ==
    /\ pc = "start"
    /\ passed_courses_history' = build_passed_courses_history(semesters)
    /\ pc' = "semester"
    /\ UNCHANGED <<course_data, log, report,
                   catalog, semesters, all_results, i, k, course_prereqs,
                   iterations, changes_made, pos>>

\* lines 108-124: enter semester i, check its credit limit
CheckCredit ==
    /\ pc = "semester"
    /\ i < Len(semesters)
    /\ LET verdict == validate_credit_limit(semesters[i + 1])
       IN  all_results' = IF ~verdict[1]
                          THEN Append(all_results, CreditResult(i, verdict[2]))
                          ELSE all_results
    /\ IF Len(semesters[i + 1].courses) = 0
       THEN i' = i + 1 /\ UNCHANGED <<pc, k>>
       ELSE k' = 1 /\ pc' = "course" /\ UNCHANGED i
    /\ UNCHANGED <<course_data, log, report,
                   catalog, semesters, passed_courses_history, course_prereqs,
                   iterations, changes_made, pos>>

\* lines 127-161: the k-th registration of semester i; after the last one the
\* loop over the semesters goes on
ValidateRegistration ==
    /\ pc = "course"
    /\ k <= Len(semesters[i + 1].courses)
    /\ all_results' = Append(all_results,
           EvaluateRegistration(semesters[i + 1].courses[k], i, semesters,
                                passed_courses_history, all_results))
    /\ IF k = Len(semesters[i + 1].courses)
       THEN i' = i + 1 /\ pc' = "semester" /\ UNCHANGED k
       ELSE k' = k + 1 /\ UNCHANGED <<pc, i>>
    /\ UNCHANGED <<course_data, log, report,
                   catalog, semesters, passed_courses_history, course_prereqs,
                   iterations, changes_made, pos>>

(***************************************************************************)
(* propagate_invalidation                                                  *)
(***************************************************************************)
\* line 164 and lines 407-447
StartPropagation ==
    /\ pc = "semester"
    /\ i = Len(semesters)
    /\ course_prereqs' = BuildCoursePrereqs(semesters)
    /\ iterations' = 0
    /\ changes_made' = TRUE
    /\ pc' = "while"
    /\ UNCHANGED <<course_data, log, report,
                   catalog, semesters, passed_courses_history, all_results, i, k, pos>>

\* lines 449-451: the loop test and the start of a pass
BeginPass ==
    /\ pc = "while"
    /\ LoopContinues(changes_made, iterations)
    /\ iterations' = iterations + 1
    /\ changes_made' = FALSE
    /\ log' = Append(log, Record("DEBUG", "Propagation iteration", iterations + 1))
    /\ pos' = 1
    /\ pc' = IF Len(course_prereqs) = 0 THEN "while" ELSE "for"
    /\ UNCHANGED <<course_data, report,
                   catalog, semesters, passed_courses_history, all_results, i, k,
                   course_prereqs>>

\* lines 454-504: one turn of the for loop; after the last one the loop test
PropagateStep ==
    /\ pc = "for"
    /\ pos <= Len(course_prereqs)
    /\ \E ord \in ListOrders(MergedPrereqs(course_prereqs[pos][1])) :
          LET out == PropagateCourse(semesters, all_results, course_prereqs[pos], ord)
          IN  /\ all_results' = out[1]
              /\ changes_made' = (changes_made \/ out[2])
              /\ log' = IF out[2]
                        THEN Append(log, Record("DEBUG", "Marking course as invalid",
                                                course_prereqs[pos][1]))
                        ELSE log
    /\ pos' = pos + 1
    /\ pc' = IF pos = Len(course_prereqs) THEN "while" ELSE "for"
    /\ UNCHANGED <<course_data, report,
                   catalog, semesters, passed_courses_history, i, k,
                   course_prereqs, iterations>>

\* lines 506 and 166: the loop ends, validate_transcript returns all_results
Return ==
    /\ pc = "while"
    /\ ~LoopContinues(changes_made, iterations)
    /\ log' = Append(log, Record("DEBUG", "Invalidation propagation completed after",
                                 iterations))
    /\ pc' = "done"
    /\ UNCHANGED <<course_data, report,
                   catalog, semesters, passed_courses_history, all_results, i, k,
                   course_prereqs, iterations, changes_made, pos>>

(***************************************************************************)
(* generate_summary_report                                                 *)
(***************************************************************************)
\* the credits of the registrations of a list that are not withdrawn
RECURSIVE RegisteredCredits(_)
RegisteredCredits(courses) ==
    IF Len(courses) = 0 THEN 0
    ELSE RegisteredCredits(Tail(courses)) +
         (IF Head(courses).grade # "W" THEN Head(courses).credits ELSE 0)

\* a report that stores the credits it counted back into the semesters
GenerateSummaryReportStoresCredits ==
    /\ pc = "done"
    /\ report' = generate_summary_report(semesters, all_results)
    /\ semesters' = [s \in DOMAIN semesters |->
                        [semesters[s] EXCEPT !.total_credits = RegisteredCredits(semesters[s].courses)]]
    /\ pc' = "reported"
    /\ UNCHANGED <<catalog, passed_courses_history, all_results, i, k,
                   course_prereqs, iterations, changes_made, pos, course_data, log>>

\* validator.py 652-681, called with the results validate_transcript returned
GenerateSummaryReport ==
    /\ pc = "done"
    /\ report' = generate_summary_report(semesters, all_results)
    /\ pc' = "reported"
    /\ UNCHANGED <<catalog, semesters, passed_courses_history, all_results, i, k,
                   course_prereqs, iterations, changes_made, pos, course_data, log>>

Next ==
    \/ InitializeValidator
    \/ BuildHistory
    \/ CheckCredit
    \/ ValidateRegistration
    \/ StartPropagation
    \/ BeginPass
    \/ PropagateStep
    \/ Return
    \/ GenerateSummaryReport

Spec == Init /\ [][Next]_vars

GradeSpec == GradeInit /\ [][Next]_vars

(***************************************************************************)
(* Vocabulary of the properties.                                           *)
(***************************************************************************)
\* positions of the results of kind prerequisite (one per registration)
CourseResults(results) == {n \in DOMAIN results : results[n].course_code # CREDIT_LIMIT}

InPropagation == pc \in {"while", "for"}
InEvaluation == pc \in {"semester", "course"}

\* some result of (course_code, s) with s <= semester_index is invalid
HasInvalidResult(results, course_code, semester_index) ==
    \E m \in CourseResults(results) :
        /\ results[m].course_code = course_code
        /\ results[m].semester_index <= semester_index
        /\ ~results[m].is_valid

\* C1: after a full run every registration graded W or N has a valid result.
C1_WithdrawnOrUngradedValid ==
    pc = "done" =>
        \A n \in CourseResults(all_results) :
            all_results[n].grade \in {"W", "N"} => all_results[n].is_valid

\* C2: invalidation is monotonic: no step of propagate_invalidation turns an
\* invalid result valid again, and no result disappears.
C2_InvalidationMonotonic ==
    [][InPropagation =>
          /\ Len(all_results') = Len(all_results)
          /\ \A n \in DOMAIN all_results :
                 ~all_results[n].is_valid => ~all_results'[n].is_valid]_vars

\* a second pass is running after the first one invalidated some result
C2_Witness ==
    /\ pc = "for"
    /\ iterations >= 2
    /\ \E n \in CourseResults(all_results) :
           /\ ~all_results[n].is_valid
           /\ all_results[n].reason.tag = "is invalid"

\* C3: propagate_invalidation terminates within MaxIterations passes: the pass
\* counter never exceeds the cap, the loop is never stuck before it returns,
\* and every step of it either returns or strictly advances (pass, position),
\* which is bounded by (MaxIterations, Len(course_prereqs) + 1).
C3_TerminatesWithinCap ==
    /\ [](InPropagation =>
            /\ iterations <= MaxIterations
            /\ pos <= Len(course_prereqs) + 1
            /\ ENABLED Next)
    /\ [][InPropagation =>
            \/ pc' = "done"
            \/ iterations' = iterations + 1
            \/ iterations' = iterations /\ pos' = pos + 1]_vars

\* the cap ended the loop: the tenth pass still changed a result
C3_Witness ==
    pc = "done" /\ iterations = MaxIterations /\ changes_made

\* C4: when propagate_invalidation has returned, no registration of a catalog
\* course graded other than W or N is still valid while a course of its merged
\* prerequisite set has an invalid result in the same or an earlier semester.
C4_CascadeComplete ==
    pc = "done" =>
        \A n \in CourseResults(all_results) :
            (/\ all_results[n].grade \notin {"W", "N"}
             /\ all_results[n].course_code \in DOMAIN catalog
             /\ all_results[n].is_valid)
            => \A p \in MergedPrereqs(all_results[n].course_code) :
                   ~HasInvalidResult(all_results, p, all_results[n].semester_index)

\* C5: after a full run every registration of a catalog course graded other
\* than W or N that has a merged prerequisite graded W in its semester is
\* invalid.
C5_SameSemesterWithdrawalInvalidates ==
    pc = "done" =>
        \A n \in CourseResults(all_results) :
            (/\ all_results[n].grade \notin {"W", "N"}
             /\ all_results[n].course_code \in DOMAIN catalog
             /\ MergedPrereqs(all_results[n].course_code)
                    \cap WithdrawnIn(semesters[all_results[n].semester_index + 1]) # {})
            => ~all_results[n].is_valid

\* the semesters whose credit limit the run has checked so far
CreditChecked ==
    IF pc = "start" THEN 0 ELSE IF pc = "course" THEN i + 1 ELSE i

IsNotice(reason) ==
    reason.tag \in {"NOTICE: Exceeds typical 9 credits for summer",
                    "NOTICE: Exceeds typical 22 credits for regular semester"}

ExceedsThreshold(semester) ==
    \/ semester.semester_type = "Summer" /\ semester.total_credits > 9
    \/ semester.semester_type # "Summer" /\ semester.total_credits > 22

\* C6: the credit-limit check answers is_valid = true for every
\* total, and its reason is a NOTICE exactly when the total exceeds 9 (Summer)
\* or 22 (First, Second).
C6_CreditCheckAlwaysValid ==
    \A s \in 1..CreditChecked :
        /\ validate_credit_limit(semesters[s])[1]
        /\ IsNotice(validate_credit_limit(semesters[s])[2])
               <=> ExceedsThreshold(semesters[s])

\* the transcript with every total_credits replaced by total
WithTotals(sems, total) == [s \in DOMAIN sems |-> [sems[s] EXCEPT !.total_credits = total]]

\* the results of kind prerequisite, in order, as (semester, course, flag)
RECURSIVE Validities(_)
Validities(results) ==
    IF Len(results) = 0 THEN << >>
    ELSE LET r == results[Len(results)]
             before == Validities(SubSeq(results, 1, Len(results) - 1))
         IN  IF r.course_code = CREDIT_LIMIT THEN before
             ELSE Append(before, <<r.semester_index, r.course_code, r.is_valid>>)

\* C7: credit overload never fails validation and never triggers propagation:
\* every CREDIT_LIMIT result is valid in every state, no step of the
\* propagation changes one, and the final flag of every course result is what
\* the run gives with no semester over its threshold and with every semester
\* over it.
C7_CreditOverloadIsOnlyAWarning ==
    /\ [](\A n \in DOMAIN all_results :
              all_results[n].course_code = CREDIT_LIMIT => all_results[n].is_valid)
    /\ [](pc = "done" =>
              /\ Validities(all_results) =
                     Validities(validate_transcript(WithTotals(semesters, 0)))
              /\ Validities(all_results) =
                     Validities(validate_transcript(WithTotals(semesters, RegularLimit + 1))))
    /\ [][InPropagation =>
              \A n \in DOMAIN all_results :
                  all_results[n].course_code = CREDIT_LIMIT
                      => all_results'[n] = all_results[n]]_vars

\* a run with an overloaded semester in which the propagation flipped a result
C7_Witness ==
    /\ pc = "done"
    /\ \E n, m \in DOMAIN all_results :
           /\ all_results[n].course_code = CREDIT_LIMIT
           /\ IsNotice(all_results[n].reason)
           /\ all_results[m].semester_index = all_results[n].semester_index
           /\ all_results[m].reason.tag = "is invalid"

(***************************************************************************)
(* The evaluator's verdict for the registration behind result n is the     *)
(* flag of result n until the propagation starts; the results it was       *)
(* handed are the results before position n.                               *)
(***************************************************************************)
\* some result produced before position n for (course_code, semester_index)
\* is invalid
InvalidSoFar(n, course_code, semester_index) ==
    \E m \in 1..(n - 1) :
        /\ all_results[m].course_code # CREDIT_LIMIT
        /\ all_results[m].course_code = course_code
        /\ all_results[m].semester_index = semester_index
        /\ ~all_results[m].is_valid

\* the keys of the history snapshot of semester semester_index - 1
PassedBefore(semester_index) ==
    IF semester_index = 0 THEN {} ELSE DOMAIN passed_courses_history[semester_index]

RegisteredIn(course_code, semester_index) ==
    \E j \in DOMAIN semesters[semester_index + 1].courses :
        semesters[semester_index + 1].courses[j].code = course_code

GradedIn(course_code, semester_index, grade) ==
    \E j \in DOMAIN semesters[semester_index + 1].courses :
        /\ semesters[semester_index + 1].courses[j].code = course_code
        /\ semesters[semester_index + 1].courses[j].grade = grade

FailedEarlier(course_code, semester_index) ==
    \E s \in 0..(semester_index - 1) : GradedIn(course_code, s, "F")

\* result y is a registration of Y whose only legacy prerequisite is X, in a
\* semester in which X (failed earlier, not passed before) is registered
\* with no grade W
ConcurrentRetake(y, X) ==
    LET Y == all_results[y].course_code
        idx == all_results[y].semester_index
    IN  /\ Y \in DOMAIN catalog
        /\ catalog[Y] = Entry(<<X>>, << >>)
        /\ FailedEarlier(X, idx)
        /\ X \notin PassedBefore(idx)
        /\ RegisteredIn(X, idx)
        /\ ~GradedIn(X, idx, "W")

\* C8 as claimed: in a concurrent retake the final result of Y is valid
\* exactly when the result of X in that semester is valid.
C8_RetakeFollowsPrerequisite ==
    pc = "done" =>
        \A y, x \in CourseResults(all_results) :
            (/\ ConcurrentRetake(y, all_results[x].course_code)
             /\ all_results[x].semester_index = all_results[y].semester_index)
            => (all_results[y].is_valid <=> all_results[x].is_valid)

\* C8 as amended: in a concurrent retake the evaluator's verdict for Y, graded
\* other than W or N, is valid exactly when no result produced so far for X
\* in that semester is invalid.
C8_RetakeFollowsResultsSoFar ==
    InEvaluation =>
        \A y \in CourseResults(all_results) : \A X \in 1..NumCourses :
            (/\ ConcurrentRetake(y, X)
             /\ all_results[y].grade \notin {"W", "N"})
            => (all_results[y].is_valid
                    <=> ~InvalidSoFar(y, X, all_results[y].semester_index))

\* Y was evaluated after the invalid retake of X and is invalid with it
C8_Witness ==
    /\ InEvaluation
    /\ \E y \in CourseResults(all_results) : \E X \in 1..NumCourses :
           /\ ConcurrentRetake(y, X)
           /\ all_results[y].grade \notin {"W", "N"}
           /\ InvalidSoFar(y, X, all_results[y].semester_index)
           /\ ~all_results[y].is_valid

\* result n is a registration graded other than W/N of a catalog course that
\* is decided by its legacy list
LegacyPath(n) ==
    /\ all_results[n].grade \notin {"W", "N"}
    /\ all_results[n].course_code \in DOMAIN catalog
    /\ Len(catalog[all_results[n].course_code].prerequisite_groups) = 0

\* C9 as claimed: on the legacy path the evaluator answers invalid whenever a
\* listed prerequisite is graded W in the same semester.
C9_WithdrawnPrerequisiteBlocks ==
    InEvaluation =>
        \A n \in CourseResults(all_results) :
            (/\ LegacyPath(n)
             /\ \E p \in Range(catalog[all_results[n].course_code].prerequisites) :
                    GradedIn(p, all_results[n].semester_index, "W"))
            => ~all_results[n].is_valid

\* C9 as amended: ... whenever a listed prerequisite that is not in the
\* history snapshot of the semester before is graded W in the same semester.
C9_UnpassedWithdrawnPrerequisiteBlocks ==
    InEvaluation =>
        \A n \in CourseResults(all_results) :
            (/\ LegacyPath(n)
             /\ \E p \in Range(catalog[all_results[n].course_code].prerequisites) :
                    /\ GradedIn(p, all_results[n].semester_index, "W")
                    /\ p \notin PassedBefore(all_results[n].semester_index))
            => ~all_results[n].is_valid

\* the evaluator refused a registration whose prerequisite, failed earlier
\* and never passed, is withdrawn in the same semester
C9_Witness ==
    /\ InEvaluation
    /\ \E n \in CourseResults(all_results) :
           /\ LegacyPath(n)
           /\ ~all_results[n].is_valid
           /\ \E p \in Range(catalog[all_results[n].course_code].prerequisites) :
                  /\ GradedIn(p, all_results[n].semester_index, "W")
                  /\ p \notin PassedBefore(all_results[n].semester_index)
                  /\ FailedEarlier(p, all_results[n].semester_index)

\* group g of the course behind result n is satisfied: each of its courses
\* is passed before the semester, or, in a group with concurrent_allowed,
\* registered in the semester with no invalid result so far
GroupSatisfied(n, group) ==
    \A c \in Range(group.courses) :
        \/ c \in PassedBefore(all_results[n].semester_index)
        \/ /\ group.concurrent_allowed
           /\ RegisteredIn(c, all_results[n].semester_index)
           /\ ~InvalidSoFar(n, c, all_results[n].semester_index)

GroupPath(n) ==
    /\ all_results[n].grade \notin {"W", "N"}
    /\ all_results[n].course_code \in DOMAIN catalog
    /\ Len(catalog[all_results[n].course_code].prerequisite_groups) > 0

\* C10: for a registration graded other than W/N of a catalog course with
\* prerequisite groups, the evaluator answers valid exactly when at least one
\* group is satisfied.
C10_ValidIffSomeGroupSatisfied ==
    InEvaluation =>
        \A n \in CourseResults(all_results) :
            GroupPath(n) =>
                (all_results[n].is_valid <=>
                    \E g \in DOMAIN catalog[all_results[n].course_code].prerequisite_groups :
                        GroupSatisfied(n,
                            catalog[all_results[n].course_code].prerequisite_groups[g]))

\* a registration accepted by its second group only, through a concurrent
\* registration, its first group being unsatisfied
C10_Witness ==
    /\ InEvaluation
    /\ \E n \in CourseResults(all_results) :
           LET groups == catalog[all_results[n].course_code].prerequisite_groups IN
           /\ GroupPath(n)
           /\ all_results[n].is_valid
           /\ Len(groups) = 2
           /\ ~GroupSatisfied(n, groups[1])
           /\ GroupSatisfied(n, groups[2])
           /\ \E c \in Range(groups[2].courses) :
                  c \notin PassedBefore(all_results[n].semester_index)

\* C11: in every state of a run, every result of a registration whose course
\* code is not in the catalog is valid: the evaluator accepts it (with the
\* reason "not found" when its grade is not W or N) and no step of the
\* propagation changes it.
C11_UnknownCourseValid ==
    /\ [](\A n \in CourseResults(all_results) :
              all_results[n].course_code \notin DOMAIN catalog =>
                  /\ all_results[n].is_valid
                  /\ all_results[n].grade \notin {"W", "N"} =>
                         all_results[n].reason =
                             Reason("not found in course data", all_results[n].course_code))
    /\ [][InPropagation =>
              \A n \in CourseResults(all_results) :
                  all_results[n].course_code \notin DOMAIN catalog
                      => all_results'[n] = all_results[n]]_vars

\* a finished run in which a failed registration of an unknown course is
\* valid while a course that lists it as prerequisite was flipped by the
\* propagation or refused by the evaluator
C11_Witness ==
    /\ pc = "done"
    /\ \E n, m \in CourseResults(all_results) :
           /\ all_results[n].course_code \notin DOMAIN catalog
           /\ all_results[n].grade = "F"
           /\ all_results[n].is_valid
           /\ all_results[n].course_code \in MergedPrereqs(all_results[m].course_code)
           /\ all_results[m].semester_index = all_results[n].semester_index
           /\ ~all_results[m].is_valid

\* C12: every run on the same catalog and transcript returns the same result
\* list, reasons included, whatever the order in which list(prereqs)
\* enumerates a merged prerequisite set: the list a run returns is the list
\* of the run that enumerates every set in ascending order.
C12_SameInputsSameResults ==
    pc = "done" => all_results = validate_transcript(semesters)

\* C13: no step of a run (initialisation, history, evaluation, propagation,
\* GPA views) changes the catalog or the transcript: semesters, registrations
\* and total_credits stay as supplied, in the supplied order.
C13_InputsUnchanged ==
    [][catalog' = catalog /\ semesters' = semesters]_vars

\* the report is written for a transcript with an overloaded semester and a
\* result that the propagation flipped
C13_Witness ==
    /\ pc = "reported"
    /\ Len(report) = Len(semesters)
    /\ \E n, m \in DOMAIN all_results :
           /\ all_results[n].course_code = CREDIT_LIMIT
           /\ all_results[m].reason.tag = "is invalid"

\* the history has been built
HistoryBuilt == pc \notin {"init", "start", "exited", "failed"}

\* the places (semester, position) up to semester s where code is registered
\* with a passing grade
PassingPlaces(code, s) ==
    {place \in (1..s) \X (1..(MaxRegs + MaxGradedRegs)) :
        /\ place[2] \in DOMAIN semesters[place[1]].courses
        /\ semesters[place[1]].courses[place[2]].code = code
        /\ semesters[place[1]].courses[place[2]].grade
               \in {"A", "B+", "B", "C+", "C", "D+", "D", "P"}}

\* the latest of a non-empty set of places
LatestPlace(places) ==
    CHOOSE p \in places : \A q \in places :
        q[1] < p[1] \/ (q[1] = p[1] /\ q[2] <= p[2])

\* C14: the history has one snapshot per semester, and snapshot s maps
\* exactly the codes that have a registration with a passing grade in the
\* semesters up to s, each to the grade of its latest such registration.
C14_SnapshotIsLatestPassingGrades ==
    HistoryBuilt =>
        /\ Len(passed_courses_history) = Len(semesters)
        /\ \A s \in 1..Len(semesters) :
               /\ DOMAIN passed_courses_history[s] =
                      {code \in 1..NumCourses : PassingPlaces(code, s) # {}}
               /\ \A code \in DOMAIN passed_courses_history[s] :
                      LET last == LatestPlace(PassingPlaces(code, s))
                      IN  passed_courses_history[s][code] =
                              semesters[last[1]].courses[last[2]].grade

\* a course passed in both semesters, with grade P and then with another one
C14_Witness ==
    /\ HistoryBuilt
    /\ Len(semesters) = 2
    /\ \E code \in DOMAIN passed_courses_history[1] :
           /\ passed_courses_history[1][code] = "P"
           /\ passed_courses_history[2][code] # "P"

\* C15: every snapshot contains the keys of the snapshot before it, and the
\* snapshot emitted for a semester is not altered by what the builder writes
\* for the later semesters.
C15_SnapshotsGrowAndStay ==
    HistoryBuilt =>
        /\ \A s \in 2..Len(passed_courses_history) :
               DOMAIN passed_courses_history[s - 1] \subseteq DOMAIN passed_courses_history[s]
        /\ \A s \in 1..Len(semesters) : \A n \in s..Len(semesters) :
               HistoryHeap(semesters, n)[SnapshotRef(s)]
                   = HistoryHeap(semesters, s)[SnapshotRef(s)]

\* a second semester added a key after a non-empty first snapshot was emitted
C15_Witness ==
    /\ HistoryBuilt
    /\ Len(passed_courses_history) = 2
    /\ passed_courses_history[1] # EmptyDict
    /\ DOMAIN passed_courses_history[1] # DOMAIN passed_courses_history[2]

\* the grades that carry points, with twice their points
PointGrades == {"A", "B+", "B", "C+", "C", "D+", "D", "F"}
DoubledPoints(g) ==
    CASE g = "A" -> 8 [] g = "B+" -> 7 [] g = "B" -> 6 [] g = "C+" -> 5
      [] g = "C" -> 4 [] g = "D+" -> 3 [] g = "D" -> 2 [] g = "F" -> 0

\* the sum of the credits (weighted = FALSE) or of twice points x credits
\* (weighted = TRUE) over the registrations of a list that carry points
RECURSIVE GradedSum(_, _)
GradedSum(courses, weighted) ==
    IF Len(courses) = 0 THEN 0
    ELSE GradedSum(Tail(courses), weighted) +
         (IF Head(courses).grade \notin PointGrades THEN 0
          ELSE IF weighted THEN DoubledPoints(Head(courses).grade) * Head(courses).credits
          ELSE Head(courses).credits)

\* gpa (in hundredths) is the weighted mean of the list to two decimals: 0
\* when no credit counts, else within half a hundredth of points / credits
IsGpaOf(gpa, courses) ==
    LET credits == GradedSum(courses, FALSE)
        doubled == GradedSum(courses, TRUE)
    IN  IF credits = 0 THEN gpa = 0
        ELSE /\ 2 * credits * gpa - 100 * doubled <= credits
             /\ 100 * doubled - 2 * credits * gpa <= credits

\* C16: the GPA that calculate_gpa gives for a list of registrations, here
\* the registrations of a semester and those of the semesters up to it, is
\* the mean of the points weighted by the credits over the registrations
\* graded A, B+, B, C+, C, D+, D or F, rounded to two decimals, and 0.0 when
\* their credits sum to zero; the credits counted are theirs alone.
C16_GpaIsRoundedWeightedMean ==
    pc = "reported" =>
        \A s \in 1..Len(semesters) :
            /\ IsGpaOf(report[s].semester_gpa, semesters[s].courses)
            /\ IsGpaOf(report[s].cumulative_gpa, CoursesThrough(semesters, s - 1))
            /\ calculate_gpa(semesters[s].courses)[2]
                   = GradedSum(semesters[s].courses, FALSE)

\* the semester [A x 3 credits, B x 3 credits] is reported with 3.5
C16_Witness ==
    /\ pc = "reported"
    /\ \E s \in 1..Len(semesters) :
           /\ [j \in DOMAIN semesters[s].courses |->
                  <<semesters[s].courses[j].grade, semesters[s].courses[j].credits>>]
                  = <<<<"A", 3>>, <<"B", 3>>>>
           /\ report[s].semester_gpa = 350

\* the position in all_results of the result of the j-th registration of the
\* semester at position s: the j-th result of kind prerequisite with that
\* semester index
ResultOfRegistration(s, j) ==
    CHOOSE n \in CourseResults(all_results) :
        /\ all_results[n].semester_index = s - 1
        /\ Cardinality({m \in CourseResults(all_results) :
                            all_results[m].semester_index = s - 1 /\ m < n}) = j - 1

\* the registrations 1..j of the semester at position s whose result is valid
RECURSIVE ValidRegistrations(_, _)
ValidRegistrations(s, j) ==
    IF j = 0 THEN << >>
    ELSE IF all_results[ResultOfRegistration(s, j)].is_valid
    THEN Append(ValidRegistrations(s, j - 1), semesters[s].courses[j])
    ELSE ValidRegistrations(s, j - 1)

\* those of the semesters at the positions 1..s
RECURSIVE ValidRegistrationsThrough(_)
ValidRegistrationsThrough(s) ==
    IF s = 0 THEN << >>
    ELSE ValidRegistrationsThrough(s - 1)
             \o ValidRegistrations(s, Len(semesters[s].courses))

\* C17: the valid-only semester view is the GPA of exactly the registrations
\* of the semester whose result is valid, the valid-only cumulative view
\* that of exactly the valid registrations of the semesters up to it.
C17_ValidViewsOverValidRegistrations ==
    pc = "reported" =>
        \A s \in 1..Len(semesters) :
            /\ IsGpaOf(report[s].valid_semester_gpa,
                       ValidRegistrations(s, Len(semesters[s].courses)))
            /\ IsGpaOf(report[s].valid_cumulative_gpa, ValidRegistrationsThrough(s))

\* what a result list is about, in order: (semester index, course code, grade)
Shape(results) ==
    [n \in DOMAIN results |->
        <<results[n].semester_index, results[n].course_code, results[n].grade>>]

\* one entry per registration of the semesters 1..s in the supplied order,
\* each semester over its threshold preceded by one CREDIT_LIMIT entry
RECURSIVE ExpectedShape(_)
ExpectedShape(s) ==
    IF s = 0 THEN << >>
    ELSE ExpectedShape(s - 1)
         \o (IF ExceedsThreshold(semesters[s]) THEN <<<<s - 1, CREDIT_LIMIT, "N/A">>>>
             ELSE << >>)
         \o [j \in DOMAIN semesters[s].courses |->
                <<s - 1, semesters[s].courses[j].code, semesters[s].courses[j].grade>>]

\* C18: from the end of the evaluation on (through every step of the
\* propagation, and in the list returned) the result list holds exactly one
\* result of kind prerequisite per registration, in semester order and then
\* registration order, and one CREDIT_LIMIT result, placed first, for each
\* semester over its threshold and for no other.
C18_OneResultPerRegistration ==
    (InPropagation \/ pc \in {"done", "reported"}) =>
        /\ Shape(all_results) = ExpectedShape(Len(semesters))
        /\ \A n \in DOMAIN all_results :
               all_results[n].type = IF all_results[n].course_code = CREDIT_LIMIT
                                     THEN "credit_limit" ELSE "prerequisite"

\* a returned list for two semesters with registrations, the first over its
\* threshold and the second not, after the propagation flipped a result
C18_Witness ==
    /\ pc = "done"
    /\ Len(semesters) = 2
    /\ ExceedsThreshold(semesters[1]) /\ ~ExceedsThreshold(semesters[2])
    /\ Len(semesters[1].courses) > 0 /\ Len(semesters[2].courses) > 0
    /\ all_results[1].course_code = CREDIT_LIMIT
    /\ \E n \in DOMAIN all_results :
           all_results[n].reason.tag \in
               {"is invalid", "was withdrawn (W) or failed (F) in this semester"}

\* the records a reader of the log gets: the logging level is INFO, so the
\* debug records are dropped
Surfaced(records) == SelectSeq(records, LAMBDA r : r.level # "DEBUG")

\* the propagation stopped at the cap while its last pass changed a result
CapHit == pc \in {"done", "reported"} /\ iterations = MaxIterations /\ changes_made

\* C19: when the propagation stops at the cap of 10 passes while the last
\* pass still changed a result, the results are returned and a diagnostic
\* is surfaced: a record of the propagation that reaches the log.
C19_CapHitIsSurfaced ==
    CapHit =>
        \E n \in DOMAIN Surfaced(log) :
            Surfaced(log)[n].tag \notin {"Loaded courses from course data",
                                         "Initialized validator with course data"}

\* C20: with a course data file that cannot be loaded the engine computes
\* nothing and ends with an explicit error: the process exits, or what
\* validate_transcript returns cannot be the result of a successful
\* validation of the transcript.
C20_MalformedCatalogFailsExplicitly ==
    course_data \in Malformed =>
        /\ all_results = << >>
        /\ pc \in {"init", "exited", "failed"}
        /\ pc = "failed" => all_results # validate_transcript(semesters)

\* the results the evaluator was handed when it produced result n
ResultsBefore(n) == SubSeq(all_results, 1, n - 1)

\* the catalog entry with its legacy list removed
WithoutLegacy(course_info) == [course_info EXCEPT !.prerequisites = << >>]

\* lines 310-375 for the registration behind result n, decided by the entry
\* course_info
EntryVerdict(course_info, n) ==
    LET semester_index == all_results[n].semester_index
        current_semester == semesters[semester_index + 1]
        passed_courses_before ==
            get_passed_courses_before_semester(semester_index, passed_courses_history)
        invalid_courses == get_invalid_courses(semester_index, ResultsBefore(n))
    IN
    IF Len(course_info.prerequisite_groups) > 0
    THEN GroupsLoop(1, course_info.prerequisite_groups, passed_courses_before,
                    current_semester, semesters, semester_index, invalid_courses)[1]
    ELSE IF Len(course_info.prerequisites) = 0 THEN TRUE
    ELSE LegacyLoop(1, course_info.prerequisites, passed_courses_before,
                    WithdrawnIn(current_semester), current_semester, semesters,
                    semester_index, invalid_courses)[1]

\* result n is a registration graded other than W/N of a catalog course
\* whose entry has groups and a legacy list, both non-empty
BothShapes(n) ==
    /\ GroupPath(n)
    /\ Len(catalog[all_results[n].course_code].prerequisites) > 0

\* C21: when a catalog entry has a non-empty list of prerequisite groups and
\* a non-empty legacy list, the evaluator's verdict is the verdict for the
\* same entry with the legacy list removed.
C21_GroupsTakePrecedence ==
    InEvaluation =>
        \A n \in CourseResults(all_results) :
            BothShapes(n) =>
                all_results[n].is_valid =
                    EntryVerdict(WithoutLegacy(catalog[all_results[n].course_code]), n)

\* the evaluator refused a registration none of whose groups is satisfied
\* although its legacy list alone would have accepted it
C21_Witness ==
    /\ InEvaluation
    /\ \E n \in CourseResults(all_results) :
           LET course_info == catalog[all_results[n].course_code] IN
           /\ BothShapes(n)
           /\ ~all_results[n].is_valid
           /\ EntryVerdict([course_info EXCEPT !.prerequisite_groups = << >>], n)

WithdrewEarlier(course_code, semester_index) ==
    \E s \in 0..(semester_index - 1) : GradedIn(course_code, s, "W")

\* X is a concurrent prerequisite of the registration behind result n that
\* the student withdrew from earlier: X is on the legacy list, not in the
\* history snapshot of the semester before, registered in the semester of n
\* and graded W in a strictly earlier semester
WithdrawnRetake(n, X) ==
    /\ LegacyPath(n)
    /\ X \in Range(catalog[all_results[n].course_code].prerequisites)
    /\ X \notin PassedBefore(all_results[n].semester_index)
    /\ RegisteredIn(X, all_results[n].semester_index)
    /\ WithdrewEarlier(X, all_results[n].semester_index)

\* C22: on the legacy path the evaluator answers invalid for every
\* registration that has a concurrent prerequisite the student withdrew from
\* in a strictly earlier semester, also when the student failed that
\* prerequisite in an earlier semester.
C22_EarlierWithdrawalBlocksRetake ==
    InEvaluation =>
        \A n \in CourseResults(all_results) : \A X \in 1..NumCourses :
            WithdrawnRetake(n, X) => ~all_results[n].is_valid

\* the results of the semester of result n that were produced before it
SameSemesterBefore(n) ==
    SelectSeq(ResultsBefore(n),
              LAMBDA r : r.semester_index = all_results[n].semester_index)

\* the result the adapter appends for the registration behind result n when
\* the evaluator is handed the list results
Reevaluated(n, results) ==
    EvaluateRegistration([code |-> all_results[n].course_code,
                          grade |-> all_results[n].grade],
                         all_results[n].semester_index, semesters,
                         passed_courses_history, results)

\* what the result list is about while semester i is being evaluated: the
\* finished semesters, then the registrations 1..k-1 of semester i
EvaluatedShape ==
    IF pc = "course"
    THEN ExpectedShape(i)
         \o (IF ExceedsThreshold(semesters[i + 1]) THEN <<<<i, CREDIT_LIMIT, "N/A">>>>
             ELSE << >>)
         \o [j \in 1..(k - 1) |->
                <<i, semesters[i + 1].courses[j].code, semesters[i + 1].courses[j].grade>>]
    ELSE ExpectedShape(i)

\* X is registered in the semester of result n with an invalid result
\* produced before n
ListedEarlierInvalid(n, X) ==
    InvalidSoFar(n, X, all_results[n].semester_index)

\* ... and is not in the history snapshot of the semester before
UnmetInvalidSoFar(n, X) ==
    /\ X \notin PassedBefore(all_results[n].semester_index)
    /\ ListedEarlierInvalid(n, X)

\* the registrations are evaluated in the supplied order, and the verdict for
\* each is the one the evaluator gives when handed only the results produced
\* before it for its own semester
ReadsOnlyResultsSoFar ==
    /\ Shape(all_results) = EvaluatedShape
    /\ \A n \in CourseResults(all_results) :
           all_results[n] = Reevaluated(n, SameSemesterBefore(n))

\* C23 as claimed: ... and every registration graded other than W/N of a
\* catalog course is invalid at evaluation time when a course of its
\* prerequisites is listed earlier in the semester with an invalid result.
C23_EarlierInvalidPrerequisiteBlocks ==
    InEvaluation =>
        /\ ReadsOnlyResultsSoFar
        /\ \A n \in CourseResults(all_results) :
               (LegacyPath(n) \/ GroupPath(n)) =>
                   \A X \in MergedPrereqs(all_results[n].course_code) :
                       ListedEarlierInvalid(n, X) => ~all_results[n].is_valid

\* C23 as amended: ... and a registration graded other than W/N is invalid at
\* evaluation time when a prerequisite that is not in the history snapshot
\* of the semester before and is listed earlier in the semester with an
\* invalid result is on its legacy list (entry without groups) or in every
\* one of its groups.
C23_EvaluationReadsResultsSoFar ==
    InEvaluation =>
        /\ ReadsOnlyResultsSoFar
        /\ \A n \in CourseResults(all_results) :
               LET course_info == catalog[all_results[n].course_code] IN
               /\ LegacyPath(n) =>
                      \A X \in Range(course_info.prerequisites) :
                          UnmetInvalidSoFar(n, X) => ~all_results[n].is_valid
               /\ (/\ GroupPath(n)
                   /\ \A g \in DOMAIN course_info.prerequisite_groups :
                          \E X \in Range(course_info.prerequisite_groups[g].courses) :
                              UnmetInvalidSoFar(n, X))
                  => ~all_results[n].is_valid

\* a registration refused through a group that allows concurrent
\* registration, because the prerequisite listed before it is invalid; handed
\* no results the evaluator accepts it
C23_Witness ==
    /\ InEvaluation
    /\ \E n \in CourseResults(all_results) :
           /\ GroupPath(n)
           /\ ~all_results[n].is_valid
           /\ \E g \in DOMAIN catalog[all_results[n].course_code].prerequisite_groups :
                  LET group == catalog[all_results[n].course_code].prerequisite_groups[g]
                  IN  /\ group.concurrent_allowed
                      /\ \E X \in Range(group.courses) : UnmetInvalidSoFar(n, X)
           /\ Reevaluated(n, << >>).is_valid

\* the reasons that only propagate_invalidation writes
WithdrawnReason == "was withdrawn (W) or failed (F) in this semester"
InvalidReason == "is invalid"

\* result n was flipped by the propagation
Flipped(n) == all_results[n].reason.tag \in {WithdrawnReason, InvalidReason}

\* the merged prerequisites of the course of result n graded W in its semester
WithdrawnPrereqs(n) ==
    MergedPrereqs(all_results[n].course_code)
        \cap WithdrawnIn(semesters[all_results[n].semester_index + 1])

\* C24: the two rules of the propagation are prioritised: the final reason of
\* a result that the propagation flipped cites a prerequisite withdrawn in
\* the same semester whenever the course has one, and "prerequisite is
\* invalid" only when it has none.
C24_WithdrawnReasonFirst ==
    pc = "done" =>
        \A n \in CourseResults(all_results) :
            (Flipped(n) /\ WithdrawnPrereqs(n) # {}) =>
                /\ all_results[n].reason.tag = WithdrawnReason
                /\ all_results[n].reason.code \in WithdrawnPrereqs(n)

\* every course of the group is passed in a semester strictly before that of
\* result n and has no invalid result up to that semester
GroupPassedAndValid(n, group) ==
    \A c \in Range(group.courses) :
        /\ c \in PassedBefore(all_results[n].semester_index)
        /\ ~HasInvalidResult(all_results, c, all_results[n].semester_index)

\* C25: the OR-of-groups rule holds end to end: after a full run a
\* registration graded other than W/N of a catalog course with prerequisite
\* groups is valid whenever one of its groups has all its courses passed in
\* strictly earlier semesters with valid results, whatever the courses of
\* its other groups and of its legacy list are.
C25_OneGroupSufficesEndToEnd ==
    pc = "done" =>
        \A n \in CourseResults(all_results) :
            (/\ GroupPath(n)
             /\ \E g \in DOMAIN catalog[all_results[n].course_code].prerequisite_groups :
                    GroupPassedAndValid(n,
                        catalog[all_results[n].course_code].prerequisite_groups[g]))
            => all_results[n].is_valid

\* what would justify flipping result n: a course of its merged prerequisite
\* set is graded W in its semester or has an invalid result in its semester
\* or an earlier one
Trigger(n) ==
    \E p \in MergedPrereqs(all_results[n].course_code) :
        \/ p \in WithdrawnIn(semesters[all_results[n].semester_index + 1])
        \/ HasInvalidResult(all_results, p, all_results[n].semester_index)

\* the list the evaluation produced, before any propagation
EvaluatorResults == EvaluateSemesters(semesters, passed_courses_history, 1, << >>)

\* C26: the propagation is sound: every result that a step of it flips from
\* valid to invalid belongs to a catalog course that has a trigger at that
\* moment, and a result without a trigger, such as one whose prerequisite is
\* invalid in a later semester only, is returned as the evaluator produced it.
C26_PropagationSound ==
    /\ [][InPropagation =>
              \A n \in CourseResults(all_results) :
                  (all_results[n].is_valid /\ ~all_results'[n].is_valid) =>
                      /\ all_results[n].course_code \in DOMAIN catalog
                      /\ Trigger(n)]_vars
    /\ [](pc = "done" =>
              \A n \in CourseResults(all_results) :
                  ~Trigger(n) => all_results[n] = EvaluatorResults[n])

\* a returned list in which a registration is still valid while its only
\* prerequisite, valid in that semester, was flipped in a later semester
C26_Witness ==
    /\ pc = "done"
    /\ \E n, m \in CourseResults(all_results) :
           /\ all_results[n].grade \notin {"W", "N"}
           /\ all_results[n].is_valid
           /\ ~Trigger(n)
           /\ MergedPrereqs(all_results[n].course_code) = {all_results[m].course_code}
           /\ all_results[m].semester_index > all_results[n].semester_index
           /\ Flipped(m)

\* C27: the propagation changes nothing but the is_valid and reason fields
\* of the results it flips: no step of it adds, removes or reorders results
\* or changes another field, and no step changes a result that is already
\* invalid, a CREDIT_LIMIT result, a result of a registration graded N or a
\* result of a course without prerequisites in the catalog.
C27_PropagationFrame ==
    [][InPropagation =>
          /\ Len(all_results') = Len(all_results)
          /\ \A n \in DOMAIN all_results :
                 /\ all_results'[n] = [all_results[n] EXCEPT
                                          !.is_valid = all_results'[n].is_valid,
                                          !.reason = all_results'[n].reason]
                 /\ all_results'[n] # all_results[n] =>
                        all_results[n].is_valid /\ ~all_results'[n].is_valid
                 /\ (\/ ~all_results[n].is_valid
                     \/ all_results[n].course_code = CREDIT_LIMIT
                     \/ all_results[n].grade = "N"
                     \/ MergedPrereqs(all_results[n].course_code) = {})
                    => all_results'[n] = all_results[n]]_vars

\* the flags of a result list by (semester_index, course_code)
ValiditySet(results) ==
    {<<results[n].semester_index, results[n].course_code, results[n].is_valid>> :
        n \in CourseResults(results)}

\* the listing orders compared for a semester of n registrations: every
\* permutation of a short semester, the reversal of a long one
Reorderings(n) ==
    IF n <= MaxRegs THEN ListOrders(1..n) ELSE {[j \in 1..n |-> n + 1 - j]}

\* the transcript with the registrations of the semester at position s
\* listed in the order perm
Reordered(sems, s, perm) ==
    [sems EXCEPT ![s].courses = [j \in DOMAIN perm |-> sems[s].courses[perm[j]]]]

\* C28: the final validity of every registration does not depend on the
\* order in which the registrations of a semester are listed: the run on the
\* transcript with one semester reordered returns the same is_valid for each
\* (semester, course).
C28_ListingOrderIrrelevant ==
    pc = "done" =>
        \A s \in DOMAIN semesters :
            \A perm \in Reorderings(Len(semesters[s].courses)) :
                ValiditySet(validate_transcript(Reordered(semesters, s, perm)))
                    = ValiditySet(all_results)

\* the results of the semesters 0..t-1
ResultsThrough(results, t) == SelectSeq(results, LAMBDA r : r.semester_index < t)

\* C29: later semesters never influence earlier results: for every t, the
\* final flags of the registrations of the first t semesters are those of
\* the run on the transcript truncated after them.
C29_LaterSemestersIrrelevant ==
    pc = "done" =>
        \A t \in 0..Len(semesters) :
            Validities(ResultsThrough(all_results, t))
                = Validities(validate_transcript(SubSeq(semesters, 1, t)))

\* a returned list in which a course is valid in one semester and flipped by
\* the propagation in a later one, where its dependent has a valid result
\* in between or together with the first
C29_Witness ==
    /\ pc = "done"
    /\ \E n, m, d \in CourseResults(all_results) :
           /\ all_results[n].course_code = all_results[m].course_code
           /\ all_results[n].semester_index < all_results[m].semester_index
           /\ all_results[n].grade \notin {"W", "N"}
           /\ all_results[n].is_valid
           /\ Flipped(m)
           /\ all_results[n].course_code \in MergedPrereqs(all_results[d].course_code)
           /\ all_results[d].semester_index < all_results[m].semester_index
           /\ all_results[d].grade \notin {"W", "N"}
           /\ all_results[d].is_valid

\* C30: when a semester lists a course code more than once, after a full
\* run all the results with the same (course_code, semester_index) have the
\* same is_valid.
C30_DuplicatesAgree ==
    pc = "done" =>
        \A n, m \in CourseResults(all_results) :
            (/\ all_results[n].course_code = all_results[m].course_code
             /\ all_results[n].semester_index = all_results[m].semester_index)
            => all_results[n].is_valid = all_results[m].is_valid

====
